---- MODULE Spec2Model ----
(***************************************************************************)
(* prom-query-stats: a model of the aggregation and ranking pipeline.      *)
(*                                                                         *)
(* The program reads a Prometheus query log (one JSON object per line),    *)
(* groups the entries by query text (LoadQueriesFromLog, NewQuery), prints *)
(* three percentile lines (percentile) and six ranked tables (sort.Sort    *)
(* with sort.Reverse over the By... orderings, printAvgTable and           *)
(* printMaxTable).  The model follows the latest iteration of the program  *)
(* (the one with the -p flag); where an earlier iteration differs the      *)
(* difference is noted at the definition.                                  *)
(*                                                                         *)
(* Conventions.  A Go pointer or an optional flag is Nil (<<>>) or         *)
(* Some(x) (<<x>>).  A *LogEntry is the entry record itself; its id field  *)
(* (the number of the line it was decoded from) stands for the address, so *)
(* that two entries with equal contents are still two entries.  Times are  *)
(* integers (a time line), durations and sample counts are small naturals. *)
(* A float64 mean is kept as the pair <<sum, count>> it is the quotient    *)
(* of: for the values of the model the quotient of float64s orders exactly *)
(* as the rationals do.                                                    *)
(***************************************************************************)
EXTENDS Integers, Sequences, FiniteSets, TLC

VARIABLES
    \* ---- the run of main ----
    cfg,        \* the flags as given: [from, to, perc, top]
    argTop,     \* *argTop, which main clamps
    pc,         \* where main is
    file,       \* the lines the scanner has returned so far
    lineNum,    \* LoadQueriesFromLog's lineNum
    qMap,       \* LoadQueriesFromLog's qMap
    logs,       \* LoadQueriesFromLog's logs, then main's logs
    queries,    \* main's queries
    err,        \* the error LoadQueriesFromLog returned
    warnings,   \* the line numbers of the "empty query" log lines
    out,        \* standard output: percentile lines and tables
    exitCode,   \* the process exit status, Nil while running
    fault,      \* the runtime panic that ended the run, "" if none
    sortedBy,   \* the ordering the last sort.Sort of queries used
    twin,       \* whether a second run over the same input is followed
    queries2,   \* the second run's queries
    \* ---- one call of percentile ----
    pRank,      \* p
    samples,    \* the slice as the caller built it
    nums,       \* the slice as percentile leaves it
    pRet,       \* Nil, or Some(what the call did)
    \* ---- one call of NewQuery ----
    nqQuery,    \* query
    nqLogs,     \* logs
    nqRet       \* Nil, or Some(what the call returned)

mainVars == <<cfg, argTop, pc, file, lineNum, qMap, logs, queries, err,
              warnings, out, exitCode, fault, sortedBy, twin, queries2>>
percVars == <<pRank, samples, nums, pRet>>
nqVars   == <<nqQuery, nqLogs, nqRet>>
vars     == <<mainVars, percVars, nqVars>>

----------------------------------------------------------------------------
(* Bounds of the model *)

MaxLines  == 2    \* lines in the log
MaxLen    == 3    \* length of a slice handed to percentile alone
MaxVal    == 2    \* sample values handed to percentile alone
MaxLogs   == 2    \* entries handed to NewQuery alone
MaxMetric == 1    \* metric values of the entries handed to NewQuery alone

----------------------------------------------------------------------------
(* Pointers and small helpers *)

Nil == <<>>
Some(x) == <<x>>
Deref(p) == p[1]

Range(s) == {s[i] : i \in DOMAIN s}

Min(a, b) == IF a < b THEN a ELSE b

\* Mutant: Swap assigns one way (q[i] = q[j]) instead of exchanging, so an
\* element may be lost and another held twice.
Perms_Overwrites(s) ==
    LET n == Len(s)
    IN  {[i \in 1..n |-> s[f[i]]] : f \in [1..n -> 1..n]}

\* The sequences that hold the elements of s in some order: all that sort.Sort
\* can leave, since it rearranges its data through Swap alone.
Perms(s) ==
    LET n == Len(s)
        Bij == {f \in [1..n -> 1..n] : \A i, j \in 1..n : f[i] = f[j] => i = j}
    IN  {[i \in 1..n |-> s[f[i]]] : f \in Bij}

\* The sequences that enumerate the set S once each.
Orderings(S) ==
    LET n == Cardinality(S)
    IN  {f \in [1..n -> S] : \A i, j \in 1..n : f[i] = f[j] => i = j}

----------------------------------------------------------------------------
(* percentile *)

\* slices.Sort on numbers: ascending; equal numbers are indistinguishable.
RECURSIVE InsertAsc(_, _)
InsertAsc(x, s) ==
    IF s = <<>> THEN <<x>>
    ELSE IF x <= Head(s) THEN <<x>> \o s
    ELSE <<Head(s)>> \o InsertAsc(x, Tail(s))

RECURSIVE SlicesSort(_)
SlicesSort(s) == IF s = <<>> THEN <<>> ELSE InsertAsc(Head(s), SlicesSort(Tail(s)))

\* int(math.Ceil((float64(p)/100.0) * float64(n))).  The float64 product rounds
\* to the exact ceiling for every p in 1..100 and every n below 25 (the first
\* pair that rounds up is p = 28, n = 25), so the integer ceiling is the value.
KthIndex(p, n) == (p * n + 99) \div 100

\* percentile with the rank check written p < 0: rank 0 gets through.
percentile_ZeroRankAccepted(p, ns) ==
    IF p < 0 \/ p > 100
    THEN [status |-> "range", value |-> 0, slice |-> ns]
    ELSE IF Len(ns) = 0
    THEN [status |-> "empty", value |-> 0, slice |-> ns]
    ELSE LET sorted == SlicesSort(ns)
             kth    == KthIndex(p, Len(ns))
         IN  IF kth >= Len(sorted)
             THEN [status |-> "panic", value |-> 0, slice |-> sorted]
             ELSE [status |-> "ok", value |-> sorted[kth + 1], slice |-> sorted]

\* What one call does: status "range" and "empty" are the two error returns,
\* "panic" is the index out of range at nums[kth], "ok" returns value.
\* slice is nums after the call (sorted in place once the checks passed).
percentile(p, ns) ==
    IF p <= 0 \/ p > 100
    THEN [status |-> "range", value |-> 0, slice |-> ns]
    ELSE IF Len(ns) = 0
    THEN [status |-> "empty", value |-> 0, slice |-> ns]
    ELSE LET sorted == SlicesSort(ns)
             kth    == KthIndex(p, Len(ns))
         IN  IF kth >= Len(sorted)
             THEN [status |-> "panic", value |-> 0, slice |-> sorted]
             ELSE [status |-> "ok", value |-> sorted[kth + 1], slice |-> sorted]

Ranks == -1 .. 101

InitPercentile ==
    /\ pRank \in Ranks
    /\ \E n \in 0..MaxLen : samples \in [1..n -> 0..MaxVal]
    /\ nums = samples
    /\ pRet = Nil

CallPercentile ==
    /\ pRet = Nil
    /\ LET r == percentile(pRank, nums)
       IN  /\ pRet' = Some(r)
           /\ nums' = r.slice
    /\ UNCHANGED <<pRank, samples>>
    /\ UNCHANGED <<mainVars, nqVars>>

----------------------------------------------------------------------------
(* LogEntry, avg, NewQuery *)

\* A decoded LogEntry.  Fields the statistics never read (params.start,
\* params.end, params.step, the other timings, ruleGroup) are left out.
LogEntry(id, query, ts, exec, tqs, peak) ==
    [id |-> id, query |-> query, ts |-> ts,
     exec |-> exec, tqs |-> tqs, peak |-> peak]

RECURSIVE SumOf(_)
SumOf(ns) == IF ns = <<>> THEN 0 ELSE Head(ns) + SumOf(Tail(ns))

\* float64(sum) / float64(len(nums)), kept as <<sum, len>>.
avg(ns) == <<SumOf(ns), Len(ns)>>

\* a < b for two means.
AvgLess(a, b) == a[1] * b[2] < b[1] * a[2]

\* Mutant: >= in place of >.
ExecTotalTimeGreater_OrEqual(log, cur) == log.exec >= cur.exec

\* The three comparisons of NewQuery's loop.
ExecTotalTimeGreater(log, cur) == log.exec > cur.exec
TotalQueryableSamplesGreater(log, cur) == log.tqs > cur.tqs
PeakSamplesGreater(log, cur) == log.peak > cur.peak

\* NewQuery's loop from ls[i] on; cur holds the three max entries so far.
RECURSIVE NewQueryLoop(_, _, _)
NewQueryLoop(ls, i, cur) ==
    IF i > Len(ls) THEN cur
    ELSE LET log == ls[i]
         IN  NewQueryLoop(ls, i + 1,
                [exec |-> IF ExecTotalTimeGreater(log, cur.exec) THEN log ELSE cur.exec,
                 tqs  |-> IF TotalQueryableSamplesGreater(log, cur.tqs) THEN log ELSE cur.tqs,
                 peak |-> IF PeakSamplesGreater(log, cur.peak) THEN log ELSE cur.peak])

\* NewQuery: err is "" and q the *Query, or err is the error and q is Nil.
\* (In the iteration of the program without percentile, Logs holds the entries by
\* value and the max entries are copies of them; the choice made is the same.)
NewQuery(query, ls) ==
    IF query = "" THEN [err |-> "a query cannot be empty", q |-> Nil]
    ELSE IF Len(ls) = 0
    THEN [err |-> "a number of log entries must be greater than zero", q |-> Nil]
    ELSE LET cur == NewQueryLoop(ls, 1, [exec |-> ls[1], tqs |-> ls[1], peak |-> ls[1]])
         IN  [err |-> "",
              q |-> Some([Query |-> query,
                          Logs |-> ls,
                          AvgExecTotalTime |-> avg([i \in 1..Len(ls) |-> ls[i].exec]),
                          AvgTotalQueryableSamples |-> avg([i \in 1..Len(ls) |-> ls[i].tqs]),
                          AvgPeakSamples |-> avg([i \in 1..Len(ls) |-> ls[i].peak]),
                          MaxExecTotalTimeEntry |-> cur.exec,
                          MaxTotalQueryableSamplesEntry |-> cur.tqs,
                          MaxPeakSamplesEntry |-> cur.peak])]

\* The entries handed to NewQuery alone carry these metrics; entry i arrived i-th.
MetricTriples == (0..MaxMetric) \X (0..MaxMetric) \X (0..MaxMetric)

InitNewQuery ==
    /\ nqQuery \in {"", "a"}
    /\ \E n \in 0..MaxLogs : \E m \in [1..n -> MetricTriples] :
         nqLogs = [i \in 1..n |-> LogEntry(i, "a", Some(i), m[i][1], m[i][2], m[i][3])]
    /\ nqRet = Nil

CallNewQuery ==
    /\ nqRet = Nil
    /\ nqRet' = Some(NewQuery(nqQuery, nqLogs))
    /\ UNCHANGED <<nqQuery, nqLogs>>
    /\ UNCHANGED <<mainVars, percVars>>

----------------------------------------------------------------------------
(* The input and the flags *)

QueryTexts == {"a", "b"}
TimeStamps == {1, 2, 3}
WindowEdges == {Nil, Some(2)}
PercChoices == {0, 50, 100, 101}
TopChoices == {-1, 0, 1, 10}

\* One line of the log: structured data (kind "json") with the fields it
\* carries, or text json.Unmarshal rejects (kind "bad").  An absent "ts" is a
\* Nil ts, an absent or empty "query" is "".
JsonLine(query, ts, exec, tqs, peak) ==
    [kind |-> "json", query |-> query, ts |-> ts,
     exec |-> exec, tqs |-> tqs, peak |-> peak]

BadLine == [kind |-> "bad", query |-> "", ts |-> Nil,
            exec |-> 0, tqs |-> 0, peak |-> 0]

Lines ==
    {BadLine, JsonLine("", Some(2), 1, 1, 1), JsonLine("a", Nil, 1, 1, 1)}
    \cup {JsonLine("a", Some(t), 1, 1, 1) : t \in TimeStamps}
    \cup {JsonLine("b", Some(2), 1, 1, 1)}
    \cup {JsonLine(q, Some(2), 2, 0, 1) : q \in QueryTexts}

Flags == [from : WindowEdges, to : WindowEdges, perc : PercChoices, top : TopChoices]

----------------------------------------------------------------------------
(* LoadQueriesFromLog *)

\* Mutant: the error of json.Unmarshal is not looked at.
UnmarshalFails_Unchecked(line) == FALSE

\* json.Unmarshal(line, &entry) returned an error.
UnmarshalFails(line) == line.kind = "bad"

\* var entry LogEntry after json.Unmarshal: a fresh entry for each line.
Unmarshal(line, n) ==
    LogEntry(n, line.query, line.ts, line.exec, line.tqs, line.peak)

\* fmt.Errorf("Failed to parse line %d: %w", lineNum, err)
ParseError(n) == <<"Failed to parse line", n>>

\* Mutant: the empty query is not looked for.
EmptyQuery_Unchecked(entry) == FALSE

\* entry.Params.Query == ""
EmptyQuery(entry) == entry.query = ""

\* time.Time.Before and time.Time.After on two times that are there.
Before(t, u) == Deref(t) < Deref(u)
After(t, u) == Deref(t) > Deref(u)

\* Mutant: an entry at from is dropped too (not after, instead of before).
BeforeFrom_AtBound(entry, from) == from # Nil /\ ~After(entry.ts, from)

\* from != nil && entry.TS.Before(*from), and the same for to: each
\* dereferences entry.TS once the bound is set.
FromDerefsNil(entry, from) == from # Nil /\ entry.ts = Nil
BeforeFrom(entry, from) == from # Nil /\ Before(entry.ts, from)
ToDerefsNil(entry, to) == to # Nil /\ entry.ts = Nil
\* Mutant: the upper bound is not looked at.
AfterTo_Unchecked(entry, to) == FALSE
AfterTo(entry, to) == to # Nil /\ After(entry.ts, to)

\* Mutant: the bucket is replaced by the entry instead of grown by it.
AppendToMap_Replaces(qm, entry) ==
    [k \in DOMAIN qm \cup {entry.query} |-> IF k = entry.query THEN <<entry>> ELSE qm[k]]

\* Mutant: the entry goes to a bucket that is already there, whatever its key.
AppendToMap_StaleKey(qm, entry) ==
    LET key == IF DOMAIN qm = {} THEN entry.query ELSE CHOOSE k \in DOMAIN qm : TRUE
    IN  IF key \in DOMAIN qm
        THEN [qm EXCEPT ![key] = Append(@, entry)]
        ELSE qm @@ (key :> <<entry>>)

\* Mutant: the entry is put at the head of its bucket.
AppendToMap_Prepends(qm, entry) ==
    IF entry.query \in DOMAIN qm
    THEN [qm EXCEPT ![entry.query] = <<entry>> \o @]
    ELSE qm @@ (entry.query :> <<entry>>)

\* qMap[entry.Params.Query] = append(qMap[entry.Params.Query], &entry)
AppendToMap(qm, entry) ==
    IF entry.query \in DOMAIN qm
    THEN [qm EXCEPT ![entry.query] = Append(@, entry)]
    ELSE qm @@ (entry.query :> <<entry>>)

\* One turn of the scan loop on a line: what it does to the locals and how it
\* leaves ("continue" to the next line, "return" out of the function with err,
\* "panic" on a nil entry.TS).
LoopBody(line, n, qm, lg, from, to) ==
    LET entry == Unmarshal(line, n)
        same  == [ctl |-> "continue", err |-> Nil, qMap |-> qm, logs |-> lg, warn |-> <<>>]
    IN  IF UnmarshalFails(line) THEN [same EXCEPT !.ctl = "return", !.err = Some(ParseError(n))]
        ELSE IF EmptyQuery(entry) THEN [same EXCEPT !.warn = <<n>>]
        ELSE IF FromDerefsNil(entry, from) THEN [same EXCEPT !.ctl = "panic"]
        ELSE IF BeforeFrom(entry, from) THEN same
        ELSE IF ToDerefsNil(entry, to) THEN [same EXCEPT !.ctl = "panic"]
        ELSE IF AfterTo(entry, to) THEN same
        ELSE [same EXCEPT !.qMap = AppendToMap(qm, entry), !.logs = Append(lg, entry)]

\* The loop after the scan: the queries NewQuery builds, in the order the
\* range over qMap visits the keys (any order), or the first error.
BuildQueries(qm, order) ==
    LET built == [i \in 1..Len(order) |-> NewQuery(order[i], qm[order[i]])]
    IN  IF \E i \in 1..Len(order) : built[i].err # ""
        THEN [err |-> Some(<<"Failed to create Query">>), queries |-> <<>>]
        ELSE [err |-> Nil, queries |-> [i \in 1..Len(order) |-> Deref(built[i].q)]]

----------------------------------------------------------------------------
(* The orderings of sort.Sort *)

ByTimeLess(a, b) == Before(a.ts, b.ts)

\* Mutant: i compared with itself.
ByMaxExecTotalTimeLess_SameIndex(qi, qj) ==
    qi.MaxExecTotalTimeEntry.exec < qi.MaxExecTotalTimeEntry.exec

\* Mutant: > in place of <.
ByAvgTotalQueryableSamplesLess_Flipped(qi, qj) ==
    AvgLess(qj.AvgTotalQueryableSamples, qi.AvgTotalQueryableSamples)

ByAvgExecTotalTimeLess(qi, qj) == AvgLess(qi.AvgExecTotalTime, qj.AvgExecTotalTime)
ByMaxExecTotalTimeLess(qi, qj) ==
    qi.MaxExecTotalTimeEntry.exec < qj.MaxExecTotalTimeEntry.exec
ByAvgTotalQueryableSamplesLess(qi, qj) ==
    AvgLess(qi.AvgTotalQueryableSamples, qj.AvgTotalQueryableSamples)
ByMaxTotalQueryableSamplesLess(qi, qj) ==
    qi.MaxTotalQueryableSamplesEntry.tqs < qj.MaxTotalQueryableSamplesEntry.tqs
ByAvgPeakSamplesLess(qi, qj) == AvgLess(qi.AvgPeakSamples, qj.AvgPeakSamples)
ByMaxPeakSamplesLess(qi, qj) ==
    qi.MaxPeakSamplesEntry.peak < qj.MaxPeakSamplesEntry.peak

\* The Less of the sort.Interface a table is sorted by, by the table's title.
QueriesLess(by, qi, qj) ==
    CASE by = "average execution time" -> ByAvgExecTotalTimeLess(qi, qj)
      [] by = "max execution time" -> ByMaxExecTotalTimeLess(qi, qj)
      [] by = "average total queryable samples" -> ByAvgTotalQueryableSamplesLess(qi, qj)
      [] by = "max total queryable samples" -> ByMaxTotalQueryableSamplesLess(qi, qj)
      [] by = "average peak samples" -> ByAvgPeakSamplesLess(qi, qj)
      [] by = "max peak samples" -> ByMaxPeakSamplesLess(qi, qj)

\* sort.Sort(ByTime{logs}): what the call may leave.  sort.Sort is not stable,
\* so it may leave any arrangement of the elements in which no element is
\* less than the one before it.
SortByTime(le) ==
    {t \in Perms(le) : \A i \in 1..(Len(t) - 1) : ~ByTimeLess(t[i + 1], t[i])}

\* sort.Sort(sort.Reverse(By...{queries})): Reverse swaps the arguments of
\* Less, so no element is greater than the one before it.
SortReverse(qs, by) ==
    {t \in Perms(qs) : \A i \in 1..(Len(t) - 1) : ~QueriesLess(by, t[i], t[i + 1])}

----------------------------------------------------------------------------
(* main *)

\* LogEntries.Get...Values
GetExecTotalTimeValues(le) == [i \in 1..Len(le) |-> le[i].exec]
GetTotalQueryableSamplesValues(le) == [i \in 1..Len(le) |-> le[i].tqs]
GetPeakSamplesValues(le) == [i \in 1..Len(le) |-> le[i].peak]

\* The process ends where it is: os.Exit(1), log.Fatal (status 1), a panic
\* (status 2), or main returns (status 0).
Exit(code, why) ==
    /\ exitCode' = Some(code)
    /\ fault' = why
    /\ UNCHANGED pc

\* main is at the place `at` and the process has not ended.
At(at) == pc = at /\ exitCode = Nil

Init ==
    /\ cfg \in Flags
    /\ argTop = cfg.top
    /\ pc = "main"
    /\ file = <<>>
    /\ lineNum = 0
    /\ qMap = <<>>
    /\ logs = <<>>
    /\ queries = <<>>
    /\ err = Nil
    /\ warnings = <<>>
    /\ out = <<>>
    /\ exitCode = Nil
    /\ fault = ""
    /\ sortedBy = ""
    /\ twin = FALSE
    /\ queries2 = <<>>
    /\ pRank = 0 /\ samples = <<>> /\ nums = <<>> /\ pRet = Nil
    /\ nqQuery = "" /\ nqLogs = <<>> /\ nqRet = Nil

\* if *argPerc <= 0 || *argPerc > 100 { ...; os.Exit(1) }
MainBadRank ==
    /\ At("main")
    /\ cfg.perc <= 0 \/ cfg.perc > 100
    /\ Exit(1, "")
    /\ UNCHANGED <<cfg, argTop, file, lineNum, qMap, logs, queries, err,
                   warnings, out, sortedBy, twin, queries2>>
    /\ UNCHANGED <<percVars, nqVars>>

\* Mutant: main goes on to load whatever the rank is.
MainLoad_AnyRank ==
    /\ At("main")
    /\ pc' = "scan"
    /\ UNCHANGED <<cfg, argTop, file, lineNum, qMap, logs, queries, err,
                   warnings, out, exitCode, fault, sortedBy, twin, queries2>>
    /\ UNCHANGED <<percVars, nqVars>>

\* The rank is fine: main opens the input and calls LoadQueriesFromLog.
MainLoad ==
    /\ At("main")
    /\ ~(cfg.perc <= 0 \/ cfg.perc > 100)
    /\ pc' = "scan"
    /\ UNCHANGED <<cfg, argTop, file, lineNum, qMap, logs, queries, err,
                   warnings, out, exitCode, fault, sortedBy, twin, queries2>>
    /\ UNCHANGED <<percVars, nqVars>>

\* scanner.Scan() returned a line: one turn of the loop.
ScanLine ==
    /\ At("scan")
    /\ lineNum < MaxLines
    /\ \E line \in Lines :
         LET r == LoopBody(line, lineNum, qMap, logs, cfg.from, cfg.to)
         IN  /\ file' = Append(file, line)
             /\ warnings' = warnings \o r.warn
             /\ CASE r.ctl = "continue" ->
                       /\ lineNum' = lineNum + 1
                       /\ qMap' = r.qMap
                       /\ logs' = r.logs
                       /\ UNCHANGED <<pc, err, exitCode, fault>>
                  [] r.ctl = "return" ->
                       /\ pc' = "loaded"
                       /\ err' = r.err
                       /\ logs' = <<>>
                       /\ UNCHANGED <<lineNum, qMap, exitCode, fault>>
                  [] r.ctl = "panic" ->
                       /\ Exit(2, "nil pointer dereference")
                       /\ UNCHANGED <<lineNum, qMap, logs, err>>
    /\ UNCHANGED <<cfg, argTop, queries, out, sortedBy, twin, queries2>>
    /\ UNCHANGED <<percVars, nqVars>>

\* scanner.Scan() returned false and scanner.Err() is an error (the read
\* failed, or a line is longer than the scanner's buffer).
ScanFails ==
    /\ At("scan")
    /\ pc' = "loaded"
    /\ err' = Some(<<"scanner">>)
    /\ logs' = <<>>
    /\ UNCHANGED <<cfg, argTop, file, lineNum, qMap, queries, warnings, out,
                   exitCode, fault, sortedBy, twin, queries2>>
    /\ UNCHANGED <<percVars, nqVars>>

\* scanner.Scan() returned false at the end of the input: the queries are
\* built from qMap and returned with logs.
ScanEnds ==
    /\ At("scan")
    /\ pc' = "loaded"
    /\ \E order \in Orderings(DOMAIN qMap) :
         LET r == BuildQueries(qMap, order)
         IN  /\ err' = r.err
             /\ queries' = r.queries
             /\ logs' = IF r.err = Nil THEN logs ELSE <<>>
    /\ queries2' \in IF twin
                     THEN {BuildQueries(qMap, o).queries : o \in Orderings(DOMAIN qMap)}
                     ELSE {<<>>}
    /\ UNCHANGED <<cfg, argTop, file, lineNum, qMap, warnings, out,
                   exitCode, fault, sortedBy, twin>>
    /\ UNCHANGED <<percVars, nqVars>>

\* if err != nil { log.Fatalf(...) }
MainLoadFailed ==
    /\ At("loaded")
    /\ err # Nil
    /\ Exit(1, "")
    /\ UNCHANGED <<cfg, argTop, file, lineNum, qMap, logs, queries, err,
                   warnings, out, sortedBy, twin, queries2>>
    /\ UNCHANGED <<percVars, nqVars>>

\* if len(queries) == 0 { log.Fatalln("Loaded 0 queries") }
MainNoQueries ==
    /\ At("loaded")
    /\ err = Nil
    /\ Len(queries) = 0
    /\ Exit(1, "")
    /\ UNCHANGED <<cfg, argTop, file, lineNum, qMap, logs, queries, err,
                   warnings, out, sortedBy, twin, queries2>>
    /\ UNCHANGED <<percVars, nqVars>>

\* sort.Sort(ByTime{logs}), the "Loaded ..." log line, and the clamp of *argTop.
\* ByTime.Less dereferences the TS of both entries it compares, and sorting
\* two or more entries compares every one of them.
MainSortLogs ==
    /\ At("loaded")
    /\ err = Nil
    /\ Len(queries) # 0
    /\ IF Len(logs) >= 2 /\ \E i \in 1..Len(logs) : logs[i].ts = Nil
       THEN /\ Exit(2, "nil pointer dereference")
            /\ UNCHANGED <<logs, argTop>>
       ELSE /\ logs' \in (IF Len(logs) >= 2 THEN SortByTime(logs) ELSE {logs})
            /\ argTop' = IF argTop > Len(queries) THEN Len(queries) ELSE argTop
            /\ pc' = "percExec"
            /\ UNCHANGED <<exitCode, fault>>
    /\ UNCHANGED <<cfg, file, lineNum, qMap, queries, err, warnings, out,
                   sortedBy, twin, queries2>>
    /\ UNCHANGED <<percVars, nqVars>>

\* if p, err := percentile(*argPerc, values); err != nil { log.Fatalf } else { print }
PercentileLine(at, title, values, next) ==
    /\ At(at)
    /\ LET r == percentile(cfg.perc, values)
       IN  CASE r.status = "ok" ->
                  /\ out' = Append(out, [kind |-> "percentile", title |-> title,
                                         value |-> r.value])
                  /\ pc' = next
                  /\ UNCHANGED <<exitCode, fault>>
             [] r.status = "panic" ->
                  /\ Exit(2, "index out of range")
                  /\ UNCHANGED out
             [] OTHER ->
                  /\ Exit(1, "")
                  /\ UNCHANGED out
    /\ UNCHANGED <<cfg, argTop, file, lineNum, qMap, logs, queries, err,
                   warnings, sortedBy, twin, queries2>>
    /\ UNCHANGED <<percVars, nqVars>>

PercentileExecTotalTime ==
    PercentileLine("percExec", "total execution time",
                   GetExecTotalTimeValues(logs), "avgExec")
PercentileTotalQueryableSamples ==
    PercentileLine("percTqs", "total queryable samples",
                   GetTotalQueryableSamplesValues(logs), "avgTqs")
PercentilePeakSamples ==
    PercentileLine("percPeak", "peak samples",
                   GetPeakSamplesValues(logs), "avgPeak")

\* tsGetter(query) of the three printMaxTable calls.
MaxExecTotalTimeTS(q) == q.MaxExecTotalTimeEntry.ts
MaxTotalQueryableSamplesTS(q) == q.MaxTotalQueryableSamplesEntry.ts
MaxPeakSamplesTS(q) == q.MaxPeakSamplesEntry.ts

\* Whether printing the row of q dereferences a nil TS: printMaxTable calls
\* tsGetter(query).Format, printAvgTable reads no TS.
RowDerefsNil(title, q) ==
    CASE title = "max execution time" -> MaxExecTotalTimeTS(q) = Nil
      [] title = "max total queryable samples" -> MaxTotalQueryableSamplesTS(q) = Nil
      [] title = "max peak samples" -> MaxPeakSamplesTS(q) = Nil
      [] OTHER -> FALSE

\* The rows printed before the first row that panics, all of them if none does.
RowsPrinted(title, qs) ==
    LET nils == {i \in 1..Len(qs) : RowDerefsNil(title, qs[i])}
    IN  IF nils = {} THEN qs
        ELSE SubSeq(qs, 1, (CHOOSE i \in nils : \A j \in nils : i <= j) - 1)

\* printAvgTable and printMaxTable on the sorted queries: the header, then a
\* row for each of queries[:*argTop], which panics when *argTop is negative.
PrintTable(title, sorted, top) ==
    IF top < 0
    THEN [fault |-> "slice bounds out of range",
          table |-> [kind |-> "table", title |-> title, top |-> top,
                     rows |-> <<>>, complete |-> FALSE]]
    ELSE LET slice == SubSeq(sorted, 1, top)
             rows  == RowsPrinted(title, slice)
         IN  IF rows # slice
             THEN [fault |-> "nil pointer dereference",
                   table |-> [kind |-> "table", title |-> title, top |-> top,
                              rows |-> rows, complete |-> FALSE]]
             ELSE [fault |-> "",
                   table |-> [kind |-> "table", title |-> title, top |-> top,
                              rows |-> rows, complete |-> TRUE]]

\* sort.Sort(sort.Reverse(By...{queries})) and the table printed after it.
RankAndPrint(at, title, next) ==
    /\ At(at)
    /\ \E sorted \in SortReverse(queries, title) :
         LET r == PrintTable(title, sorted, argTop)
         IN  /\ queries' = sorted
             /\ out' = Append(out, r.table)
             /\ IF r.fault = ""
                THEN pc' = next /\ UNCHANGED <<exitCode, fault>>
                ELSE Exit(2, r.fault)
    /\ queries2' \in (IF twin THEN SortReverse(queries2, title) ELSE {<<>>})
    /\ sortedBy' = title
    /\ UNCHANGED <<cfg, argTop, file, lineNum, qMap, logs, err, warnings, twin>>
    /\ UNCHANGED <<percVars, nqVars>>

RankAvgExecTotalTime ==
    RankAndPrint("avgExec", "average execution time", "maxExec")
RankMaxExecTotalTime ==
    RankAndPrint("maxExec", "max execution time", "percTqs")
RankAvgTotalQueryableSamples ==
    RankAndPrint("avgTqs", "average total queryable samples", "maxTqs")
RankMaxTotalQueryableSamples ==
    RankAndPrint("maxTqs", "max total queryable samples", "percPeak")
RankAvgPeakSamples ==
    RankAndPrint("avgPeak", "average peak samples", "maxPeak")
RankMaxPeakSamples ==
    RankAndPrint("maxPeak", "max peak samples", "return")

\* main returns.
MainReturns ==
    /\ At("return")
    /\ Exit(0, "")
    /\ UNCHANGED <<cfg, argTop, file, lineNum, qMap, logs, queries, err,
                   warnings, out, sortedBy, twin, queries2>>
    /\ UNCHANGED <<percVars, nqVars>>

Next ==
    \/ MainBadRank
    \/ MainLoad
    \/ ScanLine
    \/ ScanFails
    \/ ScanEnds
    \/ MainLoadFailed
    \/ MainNoQueries
    \/ MainSortLogs
    \/ PercentileExecTotalTime
    \/ RankAvgExecTotalTime
    \/ RankMaxExecTotalTime
    \/ PercentileTotalQueryableSamples
    \/ RankAvgTotalQueryableSamples
    \/ RankMaxTotalQueryableSamples
    \/ PercentilePeakSamples
    \/ RankAvgPeakSamples
    \/ RankMaxPeakSamples
    \/ MainReturns

Spec == Init /\ [][Next]_vars

\* The same program followed on two runs over the same input.
FlagsTwin == [from : {Nil}, to : {Nil}, perc : {0, 50}, top : {1, 10}]

InitTwin ==
    /\ cfg \in FlagsTwin
    /\ argTop = cfg.top
    /\ pc = "main"
    /\ file = <<>>
    /\ lineNum = 0
    /\ qMap = <<>>
    /\ logs = <<>>
    /\ queries = <<>>
    /\ err = Nil
    /\ warnings = <<>>
    /\ out = <<>>
    /\ exitCode = Nil
    /\ fault = ""
    /\ sortedBy = ""
    /\ twin = TRUE
    /\ queries2 = <<>>
    /\ pRank = 0 /\ samples = <<>> /\ nums = <<>> /\ pRet = Nil
    /\ nqQuery = "" /\ nqLogs = <<>> /\ nqRet = Nil

SpecTwin == InitTwin /\ [][Next]_vars

\* main is not running: one call of percentile, or of NewQuery, is followed.
MainIdle ==
    /\ cfg = [from |-> Nil, to |-> Nil, perc |-> 95, top |-> 10]
    /\ argTop = 10
    /\ pc = "idle"
    /\ file = <<>>
    /\ lineNum = 0
    /\ qMap = <<>>
    /\ logs = <<>>
    /\ queries = <<>>
    /\ err = Nil
    /\ warnings = <<>>
    /\ out = <<>>
    /\ exitCode = Nil
    /\ fault = ""
    /\ sortedBy = ""
    /\ twin = FALSE
    /\ queries2 = <<>>

PercentileIdle == pRank = 0 /\ samples = <<>> /\ nums = <<>> /\ pRet = Nil
NewQueryIdle == nqQuery = "" /\ nqLogs = <<>> /\ nqRet = Nil

InitPercentileCall == MainIdle /\ InitPercentile /\ NewQueryIdle
NextPercentile == CallPercentile
SpecPercentile == InitPercentileCall /\ [][NextPercentile]_vars

InitNewQueryCall == MainIdle /\ InitNewQuery /\ PercentileIdle
NextNewQuery == CallNewQuery
SpecNewQuery == InitNewQueryCall /\ [][NextNewQuery]_vars

----------------------------------------------------------------------------
(* Properties *)

\* LoadQueriesFromLog has returned to main, without an error.
Loaded == pc \notin {"idle", "main", "scan"} /\ err = Nil

\* The ids of the entries of a list, and of the entries the groups hold.
IdsOf(le) == {le[i].id : i \in 1..Len(le)}
GroupedIds == UNION {IdsOf(queries[g].Logs) : g \in 1..Len(queries)}

\* The places <<g, k>> of the groups' Logs.
GroupPlaces == UNION {{g} \X (1..Len(queries[g].Logs)) : g \in 1..Len(queries)}

\* C1: for every non-empty slice and every rank in 1..100, percentile returns
\* without an error and without an index out of range, and the value it
\* returns is an element of the slice it was given.
C1_PercentileReturnsSample ==
    (pRet # Nil /\ pRank \in 1..100 /\ samples # <<>>) =>
        /\ Deref(pRet).status = "ok"
        /\ Deref(pRet).value \in Range(samples)

\* C2: once LoadQueriesFromLog has returned without an error, the groups
\* partition the filtered entries: every entry of logs is at exactly one place
\* of the groups' Logs, in the group whose Query is the entry's query; the
\* groups hold no entry that is not in logs; and there is exactly one group
\* for each query text among the entries.
C2_GroupsPartitionLogs ==
    Loaded =>
        /\ \A i \in 1..Len(logs) :
             LET at == {x \in GroupPlaces : queries[x[1]].Logs[x[2]] = logs[i]}
             IN  /\ Cardinality(at) = 1
                 /\ \A x \in at : queries[x[1]].Query = logs[i].query
        /\ \A i, j \in 1..Len(logs) : logs[i] = logs[j] => i = j
        /\ \A x \in GroupPlaces : queries[x[1]].Logs[x[2]] \in Range(logs)
        /\ \A g, h \in 1..Len(queries) : queries[g].Query = queries[h].Query => g = h
        /\ {queries[g].Query : g \in 1..Len(queries)} = {logs[i].query : i \in 1..Len(logs)}

\* Two groups of one entry each, or one group of two entries.
C2_Witness ==
    /\ Loaded
    /\ Len(logs) = 2
    /\ Len(queries) = 2

\* The window of the flags, as the claim states it.
InWindow(ts) ==
    /\ cfg.from = Nil \/ (ts # Nil /\ Deref(ts) >= Deref(cfg.from))
    /\ cfg.to = Nil \/ (ts # Nil /\ Deref(ts) <= Deref(cfg.to))

\* The lines (numbered from 0) that decode, carry a query and are in the window.
SurvivingLines ==
    {i - 1 : i \in {j \in 1..Len(file) :
                      file[j].kind = "json" /\ file[j].query # "" /\ InWindow(file[j].ts)}}

\* C3: a decoded entry with a query survives exactly when its timestamp is not
\* before from (if set) and not after to (if set): the entries of logs, and
\* the entries of the groups, are exactly those.
C3_WindowFilter ==
    Loaded => /\ IdsOf(logs) = SurvivingLines
              /\ GroupedIds = SurvivingLines

\* With both bounds set: an entry at the bound is kept, one before it is not.
C3_Witness ==
    /\ Loaded
    /\ cfg.from # Nil /\ cfg.to # Nil
    /\ Len(file) = 2
    /\ \E i \in 1..2 : file[i].query # "" /\ file[i].ts # Nil
                       /\ Deref(file[i].ts) < Deref(cfg.from)
    /\ Len(logs) = 1
    /\ logs[1].ts = cfg.from

\* C4: a line that does not parse is fatal: it is the last line read, the
\* function returns an error with no queries and no logs whatever came before,
\* nothing is printed, and the only way on is the exit with status 1.
C4_MalformedLineIsFatal ==
    (\E i \in 1..Len(file) : file[i].kind = "bad") =>
        /\ \A i \in 1..Len(file) : file[i].kind = "bad" <=> i = Len(file)
        /\ pc = "loaded"
        /\ err # Nil
        /\ queries = <<>> /\ logs = <<>>
        /\ out = <<>>
        /\ exitCode \in {Nil, Some(1)}
        /\ exitCode = Nil => ENABLED MainLoadFailed

\* A valid line, then a line that does not parse, and the run has ended.
C4_Witness ==
    /\ Len(file) = 2
    /\ file[1].kind = "json" /\ file[1].query # "" /\ InWindow(file[1].ts)
    /\ file[2].kind = "bad"
    /\ exitCode = Some(1)

\* C5: when line n (the first line being line 1) is the first that does not
\* parse, the error carries n.
C5_ErrorCarriesOneBasedLine ==
    (err # Nil /\ Deref(err)[1] = "Failed to parse line") => Deref(err)[2] = Len(file)

\* The places (from 1) of the lines read that decode with an empty query.
EmptyQueryLines == {i \in 1..Len(file) : file[i].kind = "json" /\ file[i].query = ""}

\* C6: a line that decodes with an empty query is skipped with a warning: it
\* is in no list, in no bucket and in no group; the loop goes on to the next
\* line; the lines after it that survive are kept; no error comes of it, and
\* an input of such lines alone gives no queries and no error.
C6_EmptyQueryIsSkipped ==
    /\ \A i \in EmptyQueryLines :
         /\ (i - 1) \in Range(warnings)
         /\ (i - 1) \notin IdsOf(logs) \cup GroupedIds
         /\ \A k \in DOMAIN qMap : (i - 1) \notin IdsOf(qMap[k])
         /\ lineNum >= i
    /\ "" \notin DOMAIN qMap
    /\ err # Nil =>
         \/ Deref(err) = <<"scanner">>
         \/ Deref(err)[1] = "Failed to parse line" /\ file[Len(file)].kind = "bad"
    /\ Loaded => SurvivingLines \subseteq IdsOf(logs)
    /\ (pc \notin {"idle", "main", "scan"} /\ EmptyQueryLines = 1..Len(file)
          /\ err # Some(<<"scanner">>)) => (err = Nil /\ queries = <<>>)

\* An empty query on the first line, an entry kept from the second.
C6_Witness ==
    /\ Loaded
    /\ Len(file) = 2
    /\ EmptyQueryLines = {1}
    /\ warnings = <<0>>
    /\ IdsOf(logs) = {1}
    /\ Len(queries) = 1

\* C7: for each of the three metrics, the max entry NewQuery stores is the
\* earliest entry of the group, in arrival order, whose value is the largest
\* of the group: no entry has a larger value and no earlier entry an equal one.
C7_MaxIsFirstOfLargest ==
    (nqRet # Nil /\ Deref(nqRet).err = "") =>
        LET q == Deref(Deref(nqRet).q)
            n == Len(nqLogs)
        IN  /\ q.Logs = nqLogs
            /\ \E k \in 1..n :
                 /\ q.MaxExecTotalTimeEntry = nqLogs[k]
                 /\ \A j \in 1..n : nqLogs[j].exec <= nqLogs[k].exec
                 /\ \A j \in 1..(k - 1) : nqLogs[j].exec < nqLogs[k].exec
            /\ \E k \in 1..n :
                 /\ q.MaxTotalQueryableSamplesEntry = nqLogs[k]
                 /\ \A j \in 1..n : nqLogs[j].tqs <= nqLogs[k].tqs
                 /\ \A j \in 1..(k - 1) : nqLogs[j].tqs < nqLogs[k].tqs
            /\ \E k \in 1..n :
                 /\ q.MaxPeakSamplesEntry = nqLogs[k]
                 /\ \A j \in 1..n : nqLogs[j].peak <= nqLogs[k].peak
                 /\ \A j \in 1..(k - 1) : nqLogs[j].peak < nqLogs[k].peak

\* Two entries equal in execution time and in peak samples, the second larger
\* in total queryable samples: the first, the second and the first are stored.
C7_Witness ==
    /\ nqRet # Nil /\ Deref(nqRet).err = ""
    /\ Len(nqLogs) = 2
    /\ nqLogs[1].exec = nqLogs[2].exec
    /\ nqLogs[1].peak = nqLogs[2].peak /\ nqLogs[1].peak > 0
    /\ nqLogs[1].tqs < nqLogs[2].tqs
    /\ Deref(Deref(nqRet).q).MaxExecTotalTimeEntry = nqLogs[1]
    /\ Deref(Deref(nqRet).q).MaxTotalQueryableSamplesEntry = nqLogs[2]
    /\ Deref(Deref(nqRet).q).MaxPeakSamplesEntry = nqLogs[1]

\* The value a table ranks a group by, from the group's entries: <<sum, count>>
\* for a mean, <<largest, 1>> for a max.
LargestOf(ns) == CHOOSE x \in Range(ns) : \A y \in Range(ns) : y <= x

MetricValue(title, q) ==
    LET exec == [i \in 1..Len(q.Logs) |-> q.Logs[i].exec]
        tqs  == [i \in 1..Len(q.Logs) |-> q.Logs[i].tqs]
        peak == [i \in 1..Len(q.Logs) |-> q.Logs[i].peak]
    IN  CASE title = "average execution time" -> <<SumOf(exec), Len(exec)>>
          [] title = "max execution time" -> <<LargestOf(exec), 1>>
          [] title = "average total queryable samples" -> <<SumOf(tqs), Len(tqs)>>
          [] title = "max total queryable samples" -> <<LargestOf(tqs), 1>>
          [] title = "average peak samples" -> <<SumOf(peak), Len(peak)>>
          [] title = "max peak samples" -> <<LargestOf(peak), 1>>

\* a >= b, and a = b, for two such values.
AtLeast(a, b) == a[1] * b[2] >= b[1] * a[2]
SameValue(a, b) == a[1] * b[2] = b[1] * a[2]

Tables == {i \in 1..Len(out) : out[i].kind = "table"}

\* C8: for every -top and every non-empty collection of groups, each table
\* has exactly min(-top, number of groups) rows and the slice of the sorted
\* collection is within it.
C8_TablesHaveMinRows ==
    \A i \in Tables :
        /\ out[i].complete
        /\ Len(out[i].rows) = Min(cfg.top, Len(queries))

\* C9: each table is in descending order of its metric, and no group left out
\* of it has a value greater than a group in it, whatever order the pass
\* before left.
C9_TablesDescending ==
    \A i \in Tables :
        LET t == out[i]
            v(q) == MetricValue(t.title, q)
        IN  /\ \A j, k \in 1..Len(t.rows) : j < k => AtLeast(v(t.rows[j]), v(t.rows[k]))
            /\ t.complete =>
                 /\ Len(t.rows) = Min(t.top, Len(queries))
                 /\ Range(t.rows) \subseteq Range(queries)
                 /\ \A g \in Range(queries) \ Range(t.rows) :
                      \A r \in Range(t.rows) : AtLeast(v(r), v(g))

\* Two tables of two rows, the later in the opposite order of the earlier and
\* its two values different.
C9_Witness ==
    \E i, j \in Tables :
        /\ i < j
        /\ out[i].complete /\ out[j].complete
        /\ Len(out[i].rows) = 2 /\ Len(out[j].rows) = 2
        /\ out[i].rows[1] = out[j].rows[2]
        /\ out[i].rows[2] = out[j].rows[1]
        /\ ~SameValue(MetricValue(out[j].title, out[j].rows[1]),
                      MetricValue(out[j].title, out[j].rows[2]))

\* C10 as it is stated: two rankings of the same groups by the same metric
\* give the same sequence, groups of equal value included, whatever order the
\* collection was held in before.
C10_SameSequence ==
    (twin /\ sortedBy # "") => queries = queries2

\* C10 as amended: two rankings of the same groups by the same metric give the
\* same sequence of values, and the same sequence of groups when no two
\* groups have the same value; the order of groups of equal value is not
\* determined.
C10_SameValues ==
    (twin /\ sortedBy # "") =>
        LET v(q) == MetricValue(sortedBy, q)
        IN  /\ Len(queries) = Len(queries2)
            /\ Range(queries) = Range(queries2)
            /\ \A i \in 1..Len(queries) : SameValue(v(queries[i]), v(queries2[i]))
            /\ (\A i, j \in 1..Len(queries) :
                    SameValue(v(queries[i]), v(queries[j])) => i = j)
                 => queries = queries2

\* Two groups of equal value, left in one order by one run and in the other
\* order by the other.
C10_Witness ==
    /\ twin /\ sortedBy # ""
    /\ Len(queries) = 2
    /\ queries[1] # queries[2]
    /\ queries2 = <<queries[2], queries[1]>>
    /\ SameValue(MetricValue(sortedBy, queries[1]), MetricValue(sortedBy, queries[2]))

\* C11: percentile returns the "out of range" error for every rank p <= 0 and
\* every p > 100 whatever the slice, and the "slice is empty" error for a rank
\* in 1..100 and an empty slice; in both cases nothing of the slice is read:
\* the zero value is returned and the slice is left as the caller built it,
\* not sorted.
C11_InvalidRankAndEmptyInput ==
    pRet # Nil =>
        LET r == Deref(pRet)
        IN  /\ (pRank <= 0 \/ pRank > 100) =>
                 (r.status = "range" /\ r.value = 0 /\ nums = samples)
            /\ (pRank \in 1..100 /\ samples = <<>>) =>
                 (r.status = "empty" /\ r.value = 0 /\ nums = samples)
            /\ r.status = "range" => (pRank <= 0 \/ pRank > 100)
            /\ r.status = "empty" => (pRank \in 1..100 /\ samples = <<>>)

\* Rank 0 on a slice that is not in ascending order: the error, and the slice
\* still in the caller's order.
C11_Witness ==
    /\ pRet # Nil
    /\ pRank = 0
    /\ Len(samples) = 2 /\ samples[1] > samples[2]
    /\ Deref(pRet).status = "range"
    /\ nums = samples

\* Every line read so far decodes and is either without a query or has a
\* timestamp outside the window: the input is empty, or nothing of it survives.
NoneSurvives ==
    \A i \in 1..Len(file) :
        /\ file[i].kind = "json"
        /\ \/ file[i].query = ""
           \/ file[i].ts # Nil /\ ~InWindow(file[i].ts)

\* C12: when no record survives (the input is empty, or holds only lines
\* without a query and records outside the window) and the read itself does
\* not fail, LoadQueriesFromLog keeps nothing, does not crash, and returns no
\* queries and no error; it is main that stops, with exit status 1, on
\* "Loaded 0 queries", before any percentile, sort or table.
C12_EmptyLogIsRaisedByMain ==
    (pc \in {"scan", "loaded"} /\ NoneSurvives /\ err # Some(<<"scanner">>)) =>
        /\ DOMAIN qMap = {} /\ logs = <<>> /\ queries = <<>>
        /\ err = Nil
        /\ out = <<>> /\ sortedBy = ""
        /\ fault = ""
        /\ pc = "scan" => exitCode = Nil
        /\ pc = "loaded" =>
             /\ exitCode \in {Nil, Some(1)}
             /\ exitCode = Nil =>
                  /\ ENABLED MainNoQueries
                  /\ ~ENABLED MainLoadFailed
                  /\ ~ENABLED MainSortLogs

\* A line without a query and a record before from, and main has stopped.
C12_Witness ==
    /\ pc = "loaded"
    /\ exitCode = Some(1)
    /\ err = Nil
    /\ cfg.from # Nil
    /\ Len(file) = 2
    /\ NoneSurvives
    /\ \E i \in 1..2 : file[i].query = ""
    /\ \E i \in 1..2 : file[i].query # "" /\ file[i].ts # Nil
                       /\ Deref(file[i].ts) < Deref(cfg.from)

\* The nearest-rank p-th percentile of a slice: the smallest of its elements v
\* such that at least p percent of the elements are <= v.
NearestRank(p, ns) ==
    LET enough == {v \in Range(ns) :
                     100 * Cardinality({i \in 1..Len(ns) : ns[i] <= v}) >= p * Len(ns)}
    IN  CHOOSE v \in enough : \A w \in enough : v <= w

\* C13: for a rank in 1..100 and a non-empty slice, percentile returns the
\* nearest-rank percentile: the smallest element v such that at least p
\* percent of the elements are <= v.
C13_ReturnsNearestRank ==
    (pRet # Nil /\ pRank \in 1..100 /\ samples # <<>>) =>
        /\ Deref(pRet).status = "ok"
        /\ Deref(pRet).value = NearestRank(pRank, samples)

\* C14: at every step of the scan every bucket of qMap has a key that is not
\* empty, at least one entry, and only entries with the key as their query, so
\* wherever the scan ends NewQuery fails for no bucket, in whatever order the
\* buckets are visited;
\* every Query returned has a query text that is not empty, at least one
\* entry, and only entries with that query text.
C14_GroupsWellFormed ==
    /\ \A k \in DOMAIN qMap :
         /\ k # ""
         /\ Len(qMap[k]) >= 1
         /\ \A i \in 1..Len(qMap[k]) : qMap[k][i].query = k
    /\ At("scan") =>
         \A order \in Orderings(DOMAIN qMap) : BuildQueries(qMap, order).err = Nil
    /\ err # Some(<<"Failed to create Query">>)
    /\ \A g \in 1..Len(queries) :
         /\ queries[g].Query # ""
         /\ Len(queries[g].Logs) >= 1
         /\ \A i \in 1..Len(queries[g].Logs) : queries[g].Logs[i].query = queries[g].Query

\* One query returned, built from a bucket of two entries.
C14_Witness ==
    /\ Loaded
    /\ Len(queries) = 1
    /\ Len(queries[1].Logs) = 2
    /\ queries[1].Query = "a"

\* LoadQueriesFromLog has returned: what follows is main's passes over the
\* queries (the sort by time, three percentiles, six rankings).
Aggregated == pc \notin {"idle", "main", "scan"}

\* C15 as it is stated: once the queries are built they are read-only: no
\* pass changes a group, adds or removes one, or modifies the collection that
\* main holds.
C15_CollectionUntouched ==
    [][Aggregated => queries' = queries]_vars

\* C15 as amended: no pass changes a group (its query, entries, means and max
\* entries), adds or removes one; a ranking pass only rearranges the
\* collection that main holds.
C15_GroupsUntouched ==
    [][Aggregated => /\ Len(queries') = Len(queries)
                     /\ Range(queries') = Range(queries)]_vars

\* All three percentiles and all six rankings are done on two groups, and
\* main has returned.
C15_Witness ==
    /\ pc = "return"
    /\ exitCode = Some(0)
    /\ Len(queries) = 2
    /\ Cardinality(Tables) = 6
    /\ Len(out) = 9

\* The entries of a list are in the order of the lines they were decoded from.
InArrivalOrder(le) == \A i, j \in 1..Len(le) : i < j => le[i].id < le[j].id

\* C16: arrival order is kept: the entries of logs, as the scan builds it and
\* as LoadQueriesFromLog returns it, and the entries of every bucket and of
\* every group, are in the order of their lines in the input, so that the
\* first entry of a group is the earliest surviving line with its query.
C16_ArrivalOrderKept ==
    /\ pc \in {"scan", "loaded"} => InArrivalOrder(logs)
    /\ \A k \in DOMAIN qMap : InArrivalOrder(qMap[k])
    /\ \A g \in 1..Len(queries) :
         /\ InArrivalOrder(queries[g].Logs)
         /\ Loaded =>
              \A n \in SurvivingLines :
                  file[n + 1].query = queries[g].Query => queries[g].Logs[1].id <= n

\* Two entries of one query returned, the later line the earlier in time.
C16_Witness ==
    /\ At("loaded")
    /\ err = Nil
    /\ Len(logs) = 2
    /\ logs[1].ts # Nil /\ logs[2].ts # Nil
    /\ Deref(logs[1].ts) > Deref(logs[2].ts)
    /\ Len(queries) = 1
    /\ queries[1].Logs = logs

\* The slice main hands to percentile at each of its three calls.
ValuesAt(at) ==
    CASE at = "percExec" -> GetExecTotalTimeValues(logs)
      [] at = "percTqs" -> GetTotalQueryableSamplesValues(logs)
      [] at = "percPeak" -> GetPeakSamplesValues(logs)

\* C17: whenever main calls percentile the rank is in 1..100 and the slice is
\* not empty, so the call takes neither of its two error returns, and main
\* never ends on "Failed to calculate percentile": an exit with status 1 is
\* the rank check's or one of the two checks after the load.
C17_PercentileErrorsUnreachable ==
    /\ \A at \in {"percExec", "percTqs", "percPeak"} :
         At(at) =>
             /\ cfg.perc \in 1..100
             /\ Len(ValuesAt(at)) >= 1
             /\ percentile(cfg.perc, ValuesAt(at)).status \notin {"range", "empty"}
    /\ exitCode = Some(1) => pc \in {"main", "loaded"}

\* main is about to make its third call, the first two having printed.
C17_Witness ==
    /\ At("percPeak")
    /\ Len(logs) = 2
    /\ Cardinality({i \in 1..Len(out) : out[i].kind = "percentile"}) = 2

\* C18: a record that decodes with a query but without a timestamp never has
\* its absent timestamp dereferenced: with or without a window, the run
\* completes or stops on a reported error, never on a nil pointer panic in
\* the window filter, the sort by time or the printing of a max table.
C18_NoAbsentTimestampDereferenced ==
    (\E i \in 1..Len(file) : file[i].kind = "json" /\ file[i].query # ""
                             /\ file[i].ts = Nil)
        => fault # "nil pointer dereference"

====
